---- MODULE Spec2Model ----
(***************************************************************************)
(* Model of generate-gherkin.py: the prompt builder, the text extractor,   *)
(* the completion wrapper, the platform walker and the entry point.        *)
(*                                                                         *)
(* Python str values that the extractor works on are sequences of          *)
(* one-character strings; file names and prompt text are TLA+ strings.     *)
(***************************************************************************)
EXTENDS Integers, Sequences, FiniteSets, TLC

VARIABLES
    cfg,             \* the four AZURE_OPENAI_* values read from the environment
    pc,              \* position of the script
    exit_status,     \* process exit status, -1 while running
    openai_client,   \* TRUE once AzureOpenAI(...) has been constructed
    requests,        \* number of chat.completions.create calls made
    reads,           \* number of input JSON files opened
    platIdx,         \* index into Platforms of the platform being walked
    json_files,      \* list(platform_path.glob('*.json')) of the current platform
    idx,             \* index into json_files of the file being processed
    test_data,       \* result of json.load for the current file
    test_code,       \* test_data.get('test_code', json_file.stem)
    gherkin_content, \* return value of generate_gherkin_with_llm
    call,            \* history: what the completion call of the current file did
    outDirs,         \* platforms whose gherkin/<platform> directory exists
    out,             \* out[p][name]: content of gherkin/<p>/<name>
    attempted,       \* history: files whose loop body has started, in order
    log,             \* history: one record per file of the current platform
    arg,             \* input of the pure function under check
    ret,             \* its return value
    fpc              \* "call" before, "returned" after

vars == <<cfg, pc, exit_status, openai_client, requests, reads, platIdx,
          json_files, idx, test_data, test_code, gherkin_content, call,
          outDirs, out, attempted, log, arg, ret, fpc>>

progVars == <<cfg, pc, exit_status, openai_client, requests, reads, platIdx,
              json_files, idx, test_data, test_code, gherkin_content, call,
              outDirs, out, attempted, log>>

fnVars == <<arg, ret, fpc>>

(***************************************************************************)
(* Bounds                                                                  *)
(***************************************************************************)
\* response texts are concatenations of at most MaxPieces pieces
MaxPieces == 4
\* at most MaxFiles *.json files exist under the base directory
MaxFiles == 2
\* an interrupted write leaves at most MaxPartial characters in the file
MaxPartial == 1
\* an api_calls list holds at most MaxCalls step records
MaxCalls == 2

(***************************************************************************)
(* Python values                                                           *)
(***************************************************************************)
None == [t |-> "none"]
Str(s) == [t |-> "str", v |-> s]
Raised == [t |-> "raised"]
Dict(d) == [t |-> "dict", v |-> d]
List(l) == [t |-> "list", v |-> l]
NoCall == "none"

\* dict.get(k, default)
Get(d, k, default) == IF k \in DOMAIN d THEN d[k] ELSE default

\* truthiness of an Optional[str]
Truthy(x) == x.t = "str" /\ Len(x.v) > 0

(***************************************************************************)
(* Characters and literals                                                 *)
(***************************************************************************)
NL == "\n"
IsSpace(c) == c \in {" ", "\n", "\t", "\r"}

UpperCase == <<"A","B","C","D","E","F","G","H","I","J","K","L","M",
               "N","O","P","Q","R","S","T","U","V","W","X","Y","Z">>
LowerCase == <<"a","b","c","d","e","f","g","h","i","j","k","l","m",
               "n","o","p","q","r","s","t","u","v","w","x","y","z">>

\* case folding used by re.IGNORECASE
Fold(c) ==
    IF \E i \in 1..Len(UpperCase) : UpperCase[i] = c
    THEN LowerCase[CHOOSE i \in 1..Len(UpperCase) : UpperCase[i] = c]
    ELSE c

\* the backquote character (a backquote cannot be written in a TLA+ string)
BQ == "BACKQUOTE"
FENCE == <<BQ, BQ, BQ>>
TAG == <<"g","h","e","r","k","i","n">>
FEATURE == <<"F","e","a","t","u","r","e",":">>
CERTAINLY == <<"C","e","r","t","a","i","n","l","y","!">>
HERE_IS == <<"H","e","r","e"," ","i","s">>
BELOW_IS == <<"B","e","l","o","w"," ","i","s">>
FAILED_LITERAL ==
    <<"F","a","i","l","e","d"," ","t","o"," ","g","e","n","e","r","a","t","e",
      " ","G","h","e","r","k","i","n"," ","c","o","d","e">>

(***************************************************************************)
(* build_prompt                                                            *)
(***************************************************************************)
\* '\n      '.join(parts)
RECURSIVE Join(_)
Join(parts) ==
    IF parts = <<>> THEN ""
    ELSE IF Len(parts) = 1 THEN parts[1]
    ELSE parts[1] \o "\n      " \o Join(Tail(parts))

\* json.dumps(value, indent=2) of an object with at most one string member
json_dumps(obj) ==
    IF DOMAIN obj = {} THEN "{}"
    ELSE LET k == CHOOSE x \in DOMAIN obj : TRUE
         IN  "{\n  \"" \o k \o "\": \"" \o obj[k] \o "\"\n}"

\* line 35 with idx in place of idx+1
StepLineZeroBased(call_, i) ==
    "Step " \o ToString(Get(call_, "step", i - 1)) \o ": "
        \o Get(call_, "name", "API Call")
        \o " (" \o Get(call_, "method", "GET") \o " "
        \o Get(call_, "api_url", "") \o ")"

\* line 35; i is the 1-based position, enumerate's idx is i - 1
StepLine(call_, i) ==
    "Step " \o ToString(Get(call_, "step", (i - 1) + 1)) \o ": "
        \o Get(call_, "name", "API Call")
        \o " (" \o Get(call_, "method", "GET") \o " "
        \o Get(call_, "api_url", "") \o ")"

PromptHead == "\n      Generate Gherkin code for the following multi-step API compliance test:\n\n"
PromptTail ==
    "\n\n      IMPORTANT:\n      - Respond ONLY with the raw Gherkin code.\n"
    \o "      - No explanations, markdown formatting, or code blocks.\n"
    \o "      - Start directly with 'Feature:'\n"
    \o "      - Include Scenario with Given, When, Then steps that describe this multi-step compliance test workflow\n"
    \o "      - Focus on the business logic and compliance validation, not individual API details\n    "

\* lines 29-58; Raised when iterating api_calls raises (api_calls is null)
build_prompt(data) ==
    LET api_calls == Get(data.v, "api_calls", List(<<>>))
    IN  IF api_calls.t # "list" THEN Raised
        ELSE LET steps_summary ==
                     Join([i \in 1..Len(api_calls.v) |-> StepLine(api_calls.v[i], i)])
                 response_schema == Get(data.v, "response_schema", <<>>)
             IN  Str(PromptHead
                     \o "      Test Description: " \o Get(data.v, "test_description", "") \o "\n"
                     \o "      Test Code: " \o Get(data.v, "test_code", "") \o "\n\n"
                     \o "      Multi-Step Workflow:\n      " \o steps_summary \o "\n\n"
                     \o "      Expected Response Schema: " \o json_dumps(response_schema)
                     \o PromptTail)

(***************************************************************************)
(* extract_gherkin_code                                                    *)
(***************************************************************************)
\* literal p occurs in s at position i
MatchAt(s, p, i) ==
    /\ i >= 1
    /\ i + Len(p) - 1 <= Len(s)
    /\ \A k \in 1..Len(p) : s[i + k - 1] = p[k]

\* literal p occurs in s at position i under re.IGNORECASE
MatchAtIgnoreCase(s, p, i) ==
    /\ i >= 1
    /\ i + Len(p) - 1 <= Len(s)
    /\ \A k \in 1..Len(p) : Fold(s[i + k - 1]) = Fold(p[k])

\* position of the first occurrence of p in s at or after i, 0 when none
RECURSIVE IndexFrom(_, _, _)
IndexFrom(s, p, i) ==
    IF i + Len(p) - 1 > Len(s) THEN 0
    ELSE IF MatchAt(s, p, i) THEN i
    ELSE IndexFrom(s, p, i + 1)

\* position of the last occurrence of p in s, 0 when none
RECURSIVE LastIndexFrom(_, _, _)
LastIndexFrom(s, p, i) ==
    IF i < 1 THEN 0
    ELSE IF MatchAt(s, p, i) THEN i
    ELSE LastIndexFrom(s, p, i - 1)

NoMatch == [matched |-> FALSE]

\* re.search of fence, optional tag, lazy group, fence, tried from i on:
\* leftmost opening fence, the tag taken greedily and given back on failure,
\* the group extended lazily to the first closing fence
RECURSIVE SearchCodeBlockFrom(_, _)
SearchCodeBlockFrom(s, i) ==
    IF i + 2 > Len(s) THEN NoMatch
    ELSE IF ~MatchAt(s, FENCE, i) THEN SearchCodeBlockFrom(s, i + 1)
    ELSE LET tagged == MatchAt(s, TAG, i + 3)
             closeTagged == IF tagged THEN IndexFrom(s, FENCE, i + 10) ELSE 0
             closePlain == IndexFrom(s, FENCE, i + 3)
         IN  IF closeTagged # 0
             THEN [matched |-> TRUE, group |-> SubSeq(s, i + 10, closeTagged - 1)]
             ELSE IF closePlain # 0
             THEN [matched |-> TRUE, group |-> SubSeq(s, i + 3, closePlain - 1)]
             ELSE SearchCodeBlockFrom(s, i + 1)

code_block_match(s) == SearchCodeBlockFrom(s, 1)

\* str.lstrip / str.rstrip / str.strip
RECURSIVE lstrip(_)
lstrip(s) == IF s # <<>> /\ IsSpace(Head(s)) THEN lstrip(Tail(s)) ELSE s

RECURSIVE rstrip(_)
rstrip(s) ==
    IF s # <<>> /\ IsSpace(s[Len(s)]) THEN rstrip(SubSeq(s, 1, Len(s) - 1)) ELSE s

strip(s) == rstrip(lstrip(s))

\* number of leading whitespace characters, the greedy \s*
RECURSIVE LeadingSpace(_)
LeadingSpace(s) ==
    IF s # <<>> /\ IsSpace(Head(s)) THEN 1 + LeadingSpace(Tail(s)) ELSE 0

\* the substitution without flags=re.IGNORECASE
SubPreambleNoCaseFold(s, phrase) ==
    LET k == LeadingSpace(s)
        nl == IndexFrom(s, <<NL>>, k + 1 + Len(phrase))
    IN  IF MatchAt(s, phrase, k + 1) /\ nl # 0
        THEN SubSeq(s, nl + 1, Len(s))
        ELSE s

\* re.sub(r'^\s*<phrase>.*?\n', '', s, flags=re.IGNORECASE)
SubPreamble(s, phrase) ==
    LET k == LeadingSpace(s)
        nl == IndexFrom(s, <<NL>>, k + 1 + Len(phrase))
    IN  IF MatchAtIgnoreCase(s, phrase, k + 1) /\ nl # 0
        THEN SubSeq(s, nl + 1, Len(s))
        ELSE s

\* lines 63-66
FencedRule(response) == code_block_match(response)

\* lines 69-70, with rindex in place of index
FeatureRuleLast(response) ==
    SubSeq(response, LastIndexFrom(response, FEATURE, Len(response)), Len(response))

\* lines 69-70: response[response.index('Feature:'):]
FeatureRule(response) ==
    SubSeq(response, IndexFrom(response, FEATURE, 1), Len(response))

\* lines 73-76
PreambleRule(response) ==
    SubPreamble(SubPreamble(SubPreamble(response, CERTAINLY), HERE_IS), BELOW_IS)

\* the rules with the Feature: test placed before the fence test
extract_feature_first(response) ==
    IF IndexFrom(response, FEATURE, 1) # 0
    THEN strip(FeatureRule(response))
    ELSE IF FencedRule(response).matched
    THEN strip(FencedRule(response).group)
    ELSE strip(PreambleRule(response))

extract_gherkin_code(response) ==
    IF FencedRule(response).matched
    THEN strip(FencedRule(response).group)
    ELSE IF IndexFrom(response, FEATURE, 1) # 0
    THEN strip(FeatureRule(response))
    ELSE strip(PreambleRule(response))

(***************************************************************************)
(* The extractor on its own: every response text built from at most        *)
(* MaxPieces pieces is passed to extract_gherkin_code.                     *)
(***************************************************************************)
CERTAINLY_LINE == CERTAINLY \o <<NL>>
here_is_line == <<"h","e","r","e"," ","i","s",NL>>
BELOW_IS_LINE == BELOW_IS \o <<NL>>

Pieces ==
    { FENCE, <<BQ>>, TAG, FEATURE, <<" ">>, <<NL>>, <<"x">>,
      CERTAINLY_LINE, here_is_line, BELOW_IS_LINE, BELOW_IS }

RECURSIVE TextsOf(_)
TextsOf(n) ==
    IF n = 0 THEN { <<>> }
    ELSE LET shorter == TextsOf(n - 1)
         IN  shorter \cup { t \o p : t \in shorter, p \in Pieces }

Texts == TextsOf(MaxPieces)

progIdle ==
    /\ cfg = <<>>
    /\ pc = "idle"
    /\ exit_status = -1
    /\ openai_client = FALSE
    /\ requests = 0
    /\ reads = 0
    /\ platIdx = 0
    /\ json_files = <<>>
    /\ idx = 0
    /\ test_data = None
    /\ test_code = ""
    /\ gherkin_content = None
    /\ call = NoCall
    /\ outDirs = {}
    /\ out = <<>>
    /\ attempted = <<>>
    /\ log = <<>>

InitExtract ==
    /\ progIdle
    /\ arg \in Texts
    /\ ret = None
    /\ fpc = "call"

CallExtract ==
    /\ pc = "idle"
    /\ fpc = "call"
    /\ ret' = Str(extract_gherkin_code(arg))
    /\ fpc' = "returned"
    /\ UNCHANGED <<arg, progVars>>

NextExtract == CallExtract

SpecExtract == InitExtract /\ [][NextExtract]_vars

(***************************************************************************)
(* What the three rules of the extractor are said to compute, stated over  *)
(* positions of the text                                                   *)
(***************************************************************************)
Occurs(s, p, i) ==
    i >= 1 /\ i + Len(p) - 1 <= Len(s) /\ SubSeq(s, i, i + Len(p) - 1) = p

FoldAll(s) == [k \in 1..Len(s) |-> Fold(s[k])]

OccursAnyCase(s, p, i) ==
    /\ i >= 1
    /\ i + Len(p) - 1 <= Len(s)
    /\ FoldAll(SubSeq(s, i, i + Len(p) - 1)) = FoldAll(p)

Min(S) == CHOOSE m \in S : \A n \in S : m <= n
Max(S) == CHOOSE m \in S : \A n \in S : m >= n

Positions(s, p) == { i \in 1..Len(s) : Occurs(s, p, i) }

Ink(s) == { i \in 1..Len(s) : ~IsSpace(s[i]) }

\* s without its leading and trailing whitespace
Trimmed(s) == IF Ink(s) = {} THEN <<>> ELSE SubSeq(s, Min(Ink(s)), Max(Ink(s)))

\* s without its trailing whitespace
TrimmedRight(s) == IF Ink(s) = {} THEN <<>> ELSE SubSeq(s, 1, Max(Ink(s)))

TagLen(s, i) == IF Occurs(s, TAG, i + 3) THEN Len(TAG) ELSE 0

\* <<i, j>>: an opening fence at i, an optional tag, a closing fence at j
Blocks(s) ==
    { b \in Positions(s, FENCE) \X Positions(s, FENCE) :
        b[2] >= b[1] + 3 + TagLen(s, b[1]) }

FirstBlock(s) ==
    CHOOSE b \in Blocks(s) :
        \A c \in Blocks(s) : b[1] < c[1] \/ (b[1] = c[1] /\ b[2] <= c[2])

InnerText(s, b) == SubSeq(s, b[1] + 3 + TagLen(s, b[1]), b[2] - 1)

\* C5: whenever the response holds a fenced block (optionally tagged
\* gherkin), extract_gherkin_code returns the trimmed inner text of the first
\* such block, whatever else (Feature:, a preamble phrase) the text holds.
C5_FirstFencedBlockWins ==
    (fpc = "returned" /\ Blocks(arg) # {})
        => ret = Str(Trimmed(InnerText(arg, FirstBlock(arg))))

\* a tagged or untagged block with Feature: in front of it and a non-empty result
C5_Witness ==
    /\ fpc = "returned"
    /\ Blocks(arg) # {}
    /\ Positions(arg, FEATURE) # {}
    /\ Min(Positions(arg, FEATURE)) < FirstBlock(arg)[1]
    /\ ret.v # <<>>

\* C6: with no fenced block and Feature: in the text, the result starts with
\* Feature: and is the text from the first occurrence of Feature: on, without
\* its trailing whitespace.
C6_FeatureRule ==
    (fpc = "returned" /\ Blocks(arg) = {} /\ Positions(arg, FEATURE) # {})
        => /\ Occurs(ret.v, FEATURE, 1)
           /\ ret = Str(TrimmedRight(
                  SubSeq(arg, Min(Positions(arg, FEATURE)), Len(arg))))

\* Feature: twice, text in front of the first one, whitespace at the end
C6_Witness ==
    /\ fpc = "returned"
    /\ Blocks(arg) = {}
    /\ Cardinality(Positions(arg, FEATURE)) >= 2
    /\ Min(Positions(arg, FEATURE)) > 1
    /\ IsSpace(arg[Len(arg)])

Phrases == <<CERTAINLY, HERE_IS, BELOW_IS>>

\* the maximal run of whitespace s starts with
LeadWs(s) == IF Ink(s) = {} THEN Len(s) ELSE Min(Ink(s)) - 1

\* the newline ending the leading line of s when that line, after leading
\* whitespace, starts with phrase ph; 0 otherwise
PhraseLineEnd(s, ph) ==
    LET from == LeadWs(s) + 1 + Len(ph)
        ends == { n \in from..Len(s) : s[n] = NL }
    IN  IF OccursAnyCase(s, ph, LeadWs(s) + 1) /\ ends # {} THEN Min(ends) ELSE 0

WithoutLine(s, ph) ==
    IF PhraseLineEnd(s, ph) # 0
    THEN SubSeq(s, PhraseLineEnd(s, ph) + 1, Len(s))
    ELSE s

LeadingPhrases(s) == { i \in 1..Len(Phrases) : PhraseLineEnd(s, Phrases[i]) # 0 }

\* one leading line removed when it matches any of the phrases
OneLineRemoved(s) ==
    IF LeadingPhrases(s) = {} THEN s
    ELSE WithoutLine(s, Phrases[Min(LeadingPhrases(s))])

\* leading lines removed for as long as one matches any of the phrases
RECURSIVE AllLinesRemoved(_)
AllLinesRemoved(s) ==
    IF LeadingPhrases(s) = {} THEN s ELSE AllLinesRemoved(OneLineRemoved(s))

NoRuleOneOrTwo(s) == Blocks(s) = {} /\ Positions(s, FEATURE) = {}

\* C7 as stated: the leading line matching one of the three phrases is
\* removed with its newline (read either as the first line only or as every
\* leading line that matches) and the trimmed remainder is the result.
C7_AsStated ==
    (fpc = "returned" /\ NoRuleOneOrTwo(arg))
        => \/ ret = Str(Trimmed(OneLineRemoved(arg)))
           \/ ret = Str(Trimmed(AllLinesRemoved(arg)))

\* C7 amended: the three phrases are tried once each in the fixed order
\* Certainly!, Here is, Below is, each on the text the previous one left; a
\* text that starts (after whitespace) with none of them is returned trimmed.
C7_PhrasesInFixedOrder ==
    (fpc = "returned" /\ NoRuleOneOrTwo(arg))
        => /\ ret = Str(Trimmed(WithoutLine(WithoutLine(WithoutLine(
                            arg, CERTAINLY), HERE_IS), BELOW_IS)))
           /\ LeadingPhrases(arg) = {} => ret = Str(Trimmed(arg))

\* a lower-case "here is" line is removed and something is left
C7_Witness ==
    /\ fpc = "returned"
    /\ NoRuleOneOrTwo(arg)
    /\ PhraseLineEnd(arg, HERE_IS) # 0
    /\ ~Occurs(arg, HERE_IS, LeadWs(arg) + 1)
    /\ ret.v # <<>>
    /\ ret.v # Trimmed(arg)

(***************************************************************************)
(* The prompt builder on its own: every test-case record with any subset   *)
(* of its fields, and of the fields of its steps, absent.                  *)
(***************************************************************************)
FullCall == [step |-> 7, name |-> "Login", method |-> "POST", api_url |-> "/login"]
FullCase ==
    [test_description |-> "Checks login", test_code |-> "TC001",
     response_schema |-> [type |-> "object"]]

Restrict(f, S) == [k \in S |-> f[k]]

CallRecords == { Restrict(FullCall, S) : S \in SUBSET (DOMAIN FullCall) }

SeqsUpTo(S, n) == UNION { [1..k -> S] : k \in 0..n }

\* the values the api_calls member takes: a list of step records, or null
ApiCallsValues == { List(l) : l \in SeqsUpTo(CallRecords, MaxCalls) } \cup { None }

PromptDatas ==
    { Dict(Restrict(FullCase, S)) : S \in SUBSET (DOMAIN FullCase) }
    \cup
    { Dict([k \in S \cup {"api_calls"} |->
               IF k = "api_calls" THEN a ELSE FullCase[k]]) :
        S \in SUBSET (DOMAIN FullCase), a \in ApiCallsValues }

InitPrompt ==
    /\ progIdle
    /\ arg \in PromptDatas
    /\ ret = None
    /\ fpc = "call"

CallPrompt ==
    /\ pc = "idle"
    /\ fpc = "call"
    /\ ret' = build_prompt(arg)
    /\ fpc' = "returned"
    /\ UNCHANGED <<arg, progVars>>

NextPrompt == CallPrompt

SpecPrompt == InitPrompt /\ [][NextPrompt]_vars

\* the text of a field: its value when present, the given text when absent
FieldText(rec, k, absent) == IF k \in DOMAIN rec THEN rec[k] ELSE absent

StepNumber(step_, n) == IF "step" \in DOMAIN step_ THEN step_.step ELSE n

StepText(step_, n, noName, noMethod) ==
    "Step " \o ToString(StepNumber(step_, n)) \o ": "
        \o FieldText(step_, "name", noName) \o " ("
        \o FieldText(step_, "method", noMethod) \o " "
        \o FieldText(step_, "api_url", "") \o ")"

RECURSIVE WorkflowText(_, _, _, _)
WorkflowText(steps, n, noName, noMethod) ==
    IF n > Len(steps) THEN ""
    ELSE (IF n > 1 THEN "\n      " ELSE "")
         \o StepText(steps[n], n, noName, noMethod)
         \o WorkflowText(steps, n + 1, noName, noMethod)

StepsOf(data) == IF "api_calls" \in DOMAIN data.v THEN data.v.api_calls.v ELSE <<>>

SchemaText(data, noSchema) ==
    IF "response_schema" \in DOMAIN data.v
    THEN json_dumps(data.v.response_schema)
    ELSE noSchema

PromptText(data, noName, noMethod, noSchema) ==
    PromptHead
    \o "      Test Description: " \o FieldText(data.v, "test_description", "")
    \o "\n      Test Code: " \o FieldText(data.v, "test_code", "")
    \o "\n\n      Multi-Step Workflow:\n      "
    \o WorkflowText(StepsOf(data), 1, noName, noMethod)
    \o "\n\n      Expected Response Schema: " \o SchemaText(data, noSchema)
    \o PromptTail

\* api_calls is absent or a list of step records
WellTyped(data) == "api_calls" \in DOMAIN data.v => data.v.api_calls.t = "list"

\* C8 as stated: build_prompt returns without raising and every absent
\* field (of the record and of its steps) contributes the empty string, an
\* absent step number being the 1-based position.
C8_AsStated ==
    (fpc = "returned" /\ WellTyped(arg))
        => ret = Str(PromptText(arg, "", "", ""))

\* C8 amended: build_prompt returns without raising; absent
\* test_description, test_code and api_url contribute the empty string, an
\* absent name renders as API Call, an absent method as GET, an absent step
\* as the 1-based position, an absent response_schema as {}, and a record
\* without api_calls has an empty workflow section.
C8_DefaultsOfAbsentFields ==
    (fpc = "returned" /\ WellTyped(arg))
        => /\ ret = Str(PromptText(arg, "API Call", "GET", "{}"))
           /\ "api_calls" \notin DOMAIN arg.v
                => WorkflowText(StepsOf(arg), 1, "API Call", "GET") = ""

\* two steps, the second with every field absent, in a record that has
\* neither test_code nor response_schema
C8_Witness ==
    /\ fpc = "returned"
    /\ ret.t = "str"
    /\ DOMAIN arg.v = {"api_calls", "test_description"}
    /\ arg.v.api_calls.t = "list"
    /\ Len(arg.v.api_calls.v) = 2
    /\ DOMAIN arg.v.api_calls.v[2] = {}

(***************************************************************************)
(* The script: entry point, platform walker, completion wrapper            *)
(***************************************************************************)
\* line 179
Platforms == <<"common", "azure", "aws">>
PlatformSet == { Platforms[i] : i \in 1..Len(Platforms) }

\* lines 24-27
ConfigKeys ==
    { "AZURE_OPENAI_API_KEY", "AZURE_OPENAI_ENDPOINT",
      "AZURE_OPENAI_API_VERSION", "AZURE_OPENAI_API_MODEL" }

\* os.getenv: None when unset, else the (possibly empty) string
EnvValues == { None, Str(""), Str("set") }

\* line 164 with any([...]) in place of all([...])
ConfigCompleteAny(c) == \E k \in ConfigKeys : Truthy(c[k])

\* line 164: all([...])
ConfigComplete(c) == \A k \in ConfigKeys : Truthy(c[k])

\* names of the *.json files a platform directory may hold
StemNames == <<"f1", "f2", "f3", "f4">>
Stems == { StemNames[i] : i \in 1..MaxFiles }

\* line 122: a directory listing of at most n files, in any order
Listings(n) ==
    { l \in SeqsUpTo(Stems, n) :
        \A i, j \in 1..Len(l) : i # j => l[i] # l[j] }

\* lines 131-132: what open + json.load give for one file: an exception, a
\* value that is not an object, or an object
EmptyDict == [k \in {} |-> None]
ParseOutcomes ==
    { Raised, List(<<>>),
      Dict(EmptyDict),
      Dict([api_calls |-> None]),
      Dict([test_code |-> StemNames[2], api_calls |-> List(<<FullCall>>)]) }

FEATURE_A == FEATURE \o <<" ", "A">>

\* lines 83-98: what chat.completions.create does: it raises, or returns a
\* response without choices, or one whose first choice has the given content
CallOutcomes ==
    { [t |-> "raise"], [t |-> "no_choices"],
      [t |-> "ok", content |-> None],
      [t |-> "ok", content |-> Str(<<>>)],
      [t |-> "ok", content |-> Str(<<" ">>)],
      [t |-> "ok", content |-> Str(FENCE \o TAG \o <<NL>> \o FEATURE_A \o <<NL>> \o FENCE)] }

\* what the call did, as the history records it
CallKind(outcome) ==
    IF outcome.t # "ok" THEN outcome.t
    ELSE IF Truthy(outcome.content) THEN "content"
    ELSE "no_content"

\* lines 78-107 with return str(e) in the handler
generate_gherkin_returns_error(data, outcome) ==
    IF build_prompt(data).t = "raised" THEN None
    ELSE IF outcome.t = "raise" THEN Str(<<"E", "r", "r", "o", "r">>)
    ELSE IF outcome.t = "no_choices" THEN None
    ELSE LET generated_code ==
                 IF Truthy(outcome.content) THEN outcome.content.v
                 ELSE FAILED_LITERAL
         IN  Str(extract_gherkin_code(generated_code))

\* lines 78-107 without the fallback literal of line 98
generate_gherkin_no_fallback(data, outcome) ==
    IF build_prompt(data).t = "raised" THEN None
    ELSE IF outcome.t # "ok" THEN None
    ELSE IF outcome.content.t = "none" THEN None
    ELSE Str(extract_gherkin_code(outcome.content.v))

\* lines 78-107: every exception inside the try gives None
generate_gherkin_with_llm(data, outcome) ==
    IF build_prompt(data).t = "raised" THEN None
    ELSE IF outcome.t = "raise" THEN None
    ELSE IF outcome.t = "no_choices" THEN None
    ELSE LET generated_code ==
                 IF Truthy(outcome.content) THEN outcome.content.v
                 ELSE FAILED_LITERAL
         IN  Str(extract_gherkin_code(generated_code))

\* every output goes to one fixed file name
gherkin_file_fixed(code) == "output.gherkin"

\* line 142: f"{test_code}.gherkin"
gherkin_file(code) == code \o ".gherkin"

EmptyDir == [n \in {} |-> <<>>]

\* open(gherkin_file, 'a'): the file is created when missing, kept otherwise
OpenForAppend(dir, name) ==
    [n \in DOMAIN dir \cup {name} |-> IF n \in DOMAIN dir THEN dir[n] ELSE <<>>]

\* line 144: open(gherkin_file, 'w') creates or truncates the file
OpenForWrite(dir, name) ==
    [n \in DOMAIN dir \cup {name} |-> IF n = name THEN <<>> ELSE dir[n]]

\* line 145: f.write appends the data to the open file
WriteTo(dir, name, data) == [dir EXCEPT ![name] = @ \o data]

\* what is left of data when its write is cut short
Partial(data) ==
    { SubSeq(data, 1, k) : k \in { n \in 0..MaxPartial : n < Len(data) } }

\* the loop stops at the first file that fails
LoopNextStopOnError(i, n, failed) ==
    IF i < n /\ ~failed THEN [pc |-> "file", idx |-> i + 1]
    ELSE [pc |-> "walker_done", idx |-> i]

\* lines 128, 151-152: the handler swallows the exception and the for loop
\* goes on with the next file, or ends after the last one
LoopNext(i, n, failed) ==
    IF i < n THEN [pc |-> "file", idx |-> i + 1]
    ELSE [pc |-> "walker_done", idx |-> i]

Platform == Platforms[platIdx]

Init ==
    /\ cfg \in [ConfigKeys -> EnvValues]
    /\ pc = "main"
    /\ exit_status = -1
    /\ openai_client = FALSE
    /\ requests = 0
    /\ reads = 0
    /\ platIdx = 0
    /\ json_files = <<>>
    /\ idx = 0
    /\ test_data = None
    /\ test_code = ""
    /\ gherkin_content = None
    /\ call = NoCall
    /\ outDirs = {}
    /\ out = [p \in PlatformSet |-> EmptyDir]
    /\ attempted = <<>>
    /\ log = <<>>
    /\ arg = None
    /\ ret = None
    /\ fpc = "none"

\* lines 156-176: validate the configuration, exit(1) or build the client
Startup ==
    /\ pc = "main"
    /\ IF ConfigComplete(cfg)
       THEN /\ openai_client' = TRUE
            /\ platIdx' = 1
            /\ pc' = "platform"
            /\ UNCHANGED exit_status
       ELSE /\ pc' = "exited"
            /\ exit_status' = 1
            /\ UNCHANGED <<openai_client, platIdx>>
    /\ UNCHANGED <<cfg, requests, reads, json_files, idx, test_data, test_code,
                   gherkin_content, call, outDirs, out, attempted, log, fnVars>>

\* lines 179-126: the next platform; its directory is missing, or mkdir
\* raises, or the directory is listed
WalkerEnter ==
    /\ pc = "platform"
    /\ platIdx <= Len(Platforms)
    /\ \/ /\ platIdx' = platIdx + 1
          /\ UNCHANGED <<pc, exit_status, json_files, idx, outDirs, attempted>>
       \/ /\ pc' = "crashed"
          /\ exit_status' = 1
          /\ UNCHANGED <<platIdx, json_files, idx, outDirs, attempted>>
       \/ \E listing \in Listings(MaxFiles - reads) :
            /\ outDirs' = outDirs \cup {Platform}
            /\ IF listing = <<>>
               THEN /\ platIdx' = platIdx + 1
                    /\ UNCHANGED <<pc, json_files, idx>>
               ELSE /\ json_files' = listing
                    /\ idx' = 1
                    /\ pc' = "file"
                    /\ UNCHANGED platIdx
            /\ attempted' = <<>>
            /\ UNCHANGED exit_status
    /\ UNCHANGED <<cfg, openai_client, requests, reads, test_data, test_code,
                   gherkin_content, call, out, log, fnVars>>

\* the end of one loop iteration
EndIteration(kind) ==
    LET nx == LoopNext(idx, Len(json_files),
                       kind \in {"unreadable", "not_object", "open_failed", "write_failed"})
    IN  /\ log' = Append(log, [file |-> json_files[idx], test_code |-> test_code,
                               call |-> call, art |-> gherkin_content,
                               kind |-> kind])
        /\ pc' = nx.pc
        /\ idx' = nx.idx

\* lines 128-136: open and parse the file, read its test_code
ReadFile ==
    /\ pc = "file"
    /\ reads' = reads + 1
    /\ attempted' = Append(attempted, json_files[idx])
    /\ \E parsed \in ParseOutcomes :
         IF parsed.t = "dict"
         THEN /\ test_data' = parsed
              /\ test_code' = Get(parsed.v, "test_code", json_files[idx])
              /\ pc' = "generate"
              /\ UNCHANGED <<idx, log>>
         ELSE /\ EndIteration(IF parsed.t = "raised" THEN "unreadable" ELSE "not_object")
              /\ UNCHANGED <<test_data, test_code>>
    /\ UNCHANGED <<cfg, exit_status, openai_client, requests, platIdx, json_files,
                   gherkin_content, call, outDirs, out, fnVars>>

\* line 139: generate_gherkin_with_llm; the request is made unless building
\* the prompt raised
Generate ==
    /\ pc = "generate"
    /\ IF build_prompt(test_data).t = "raised"
       THEN /\ call' = "prompt_raised"
            /\ gherkin_content' = generate_gherkin_with_llm(test_data, [t |-> "raise"])
            /\ UNCHANGED requests
       ELSE \E outcome \in CallOutcomes :
              /\ call' = CallKind(outcome)
              /\ gherkin_content' = generate_gherkin_with_llm(test_data, outcome)
              /\ requests' = requests + 1
    /\ pc' = "branch"
    /\ UNCHANGED <<cfg, exit_status, openai_client, reads, platIdx, json_files, idx,
                   test_data, test_code, outDirs, out, attempted, log, fnVars>>

\* lines 141-144, 148-149: the else branch, or open the output file
Branch ==
    /\ pc = "branch"
    /\ IF Truthy(gherkin_content)
       THEN \/ /\ out' = [out EXCEPT ![Platform] =
                             OpenForWrite(@, gherkin_file(test_code))]
               /\ pc' = "write"
               /\ UNCHANGED <<idx, log, test_data, test_code, gherkin_content, call>>
            \/ /\ EndIteration("open_failed")
               /\ test_data' = None /\ test_code' = ""
               /\ gherkin_content' = None /\ call' = NoCall
               /\ UNCHANGED out
       ELSE /\ EndIteration("skipped")
            /\ test_data' = None /\ test_code' = ""
            /\ gherkin_content' = None /\ call' = NoCall
            /\ UNCHANGED out
    /\ UNCHANGED <<cfg, exit_status, openai_client, requests, reads, platIdx,
                   json_files, outDirs, attempted, fnVars>>

\* lines 145-147: write and close the file; the write completes or raises
\* with part of the data on disk
WriteData ==
    /\ pc = "write"
    /\ \/ /\ out' = [out EXCEPT ![Platform] =
                        WriteTo(@, gherkin_file(test_code), gherkin_content.v)]
          /\ EndIteration("written")
       \/ \E part \in Partial(gherkin_content.v) :
            /\ out' = [out EXCEPT ![Platform] =
                          WriteTo(@, gherkin_file(test_code), part)]
            /\ EndIteration("write_failed")
    /\ test_data' = None /\ test_code' = ""
    /\ gherkin_content' = None /\ call' = NoCall
    /\ UNCHANGED <<cfg, exit_status, openai_client, requests, reads, platIdx,
                   json_files, outDirs, attempted, fnVars>>

\* line 154: the walker returns, the entry point takes the next platform
WalkerReturn ==
    /\ pc = "walker_done"
    /\ platIdx' = platIdx + 1
    /\ pc' = "platform"
    /\ json_files' = <<>>
    /\ idx' = 0
    /\ attempted' = <<>>
    /\ log' = <<>>
    /\ UNCHANGED <<cfg, exit_status, openai_client, requests, reads, test_data,
                   test_code, gherkin_content, call, outDirs, out, fnVars>>

\* lines 183-185: all platforms done
Finish ==
    /\ pc = "platform"
    /\ platIdx > Len(Platforms)
    /\ pc' = "exited"
    /\ exit_status' = 0
    /\ UNCHANGED <<cfg, openai_client, requests, reads, platIdx, json_files, idx,
                   test_data, test_code, gherkin_content, call, outDirs, out,
                   attempted, log, fnVars>>

Running == pc \in {"main", "platform", "file", "generate", "branch", "write", "walker_done"}

\* the process is terminated from outside; a file that is open for writing
\* is left with part of the data
Kill ==
    /\ Running
    /\ pc' = "killed"
    /\ exit_status' = 137
    /\ IF pc = "write"
       THEN /\ \E part \in Partial(gherkin_content.v) :
                 out' = [out EXCEPT ![Platform] =
                            WriteTo(@, gherkin_file(test_code), part)]
            /\ log' = Append(log, [file |-> json_files[idx], test_code |-> test_code,
                                   call |-> call, art |-> gherkin_content,
                                   kind |-> "killed_in_write"])
       ELSE UNCHANGED <<out, log>>
    /\ UNCHANGED <<cfg, openai_client, requests, reads, platIdx, json_files, idx,
                   test_data, test_code, gherkin_content, call, outDirs,
                   attempted, fnVars>>

Next ==
    \/ Startup
    \/ WalkerEnter
    \/ ReadFile
    \/ Generate
    \/ Branch
    \/ WriteData
    \/ WalkerReturn
    \/ Finish

Spec == Init /\ [][Next]_vars

NextKill == Next \/ Kill

SpecKill == Init /\ [][NextKill]_vars

\* the script is sequential and blocking: a step that can be taken is taken
SpecLive == Init /\ [][Next]_vars /\ WF_vars(Next)

(***************************************************************************)
(* Properties of the script                                                *)
(***************************************************************************)
Last(q) == q[Len(q)]

\* the output file the spec names for a test code
FileOf(code) == code \o ".gherkin"

\* the output directory of the platform being walked
DirNow == out[Platform]

\* C1: a file whose completion call raises leaves every output file as it
\* was (none created, none modified) and the loop goes on: the exception
\* does not leave the per-file loop.
C1_RaisingCallSkipsFile ==
    [][ (call = "raise" \/ call' = "raise")
          => /\ out' = out
             /\ outDirs' = outDirs
             /\ pc' \in {"branch", "file", "walker_done"}
             /\ call = "raise" => Last(log').kind = "skipped" ]_vars

\* the second file's call raised after the first file had been written
C1_Witness ==
    /\ pc = "walker_done"
    /\ Len(log) = 2
    /\ log[1].kind = "written"
    /\ log[2].call = "raise"
    /\ DOMAIN DirNow = {FileOf(log[1].test_code)}

InLoop == pc \in {"file", "generate", "branch", "write", "walker_done"}

\* C2: whatever fails on a file (reading or parsing it, a parsed value that
\* is no object, the completion, opening or writing the output), the walker
\* attempts every file of the listing once, in listing order, never leaves
\* the loop by an exception, and returns after the last file.
C2_EveryFileAttempted ==
    /\ [](InLoop => attempted = SubSeq(json_files, 1,
                                       IF pc = "file" THEN idx - 1 ELSE idx))
    /\ [](pc = "walker_done" => attempted = json_files)
    /\ [][pc' = "crashed" => pc = "platform"]_vars
    /\ [](pc = "file" => <>(pc = "walker_done"))

FailureKinds == {"unreadable", "not_object", "skipped", "open_failed", "write_failed"}

\* two files, the first failed, the second was still processed
C2_Witness ==
    /\ pc = "walker_done"
    /\ Len(json_files) = 2
    /\ attempted = json_files
    /\ log[1].kind \in FailureKinds
    /\ log[2].kind = "written"

MissingConfig == \E k \in ConfigKeys : cfg[k] = None

\* C3: with one of the four configuration values missing the process exits
\* with status 1 and has done nothing: no client, no request, no input file
\* read, no output directory or file created.
C3_MissingConfigExitsFirst ==
    MissingConfig
        => /\ openai_client = FALSE
           /\ requests = 0
           /\ reads = 0
           /\ outDirs = {}
           /\ \A p \in PlatformSet : out[p] = EmptyDir
           /\ pc \in {"main", "exited"}
           /\ pc = "main" => ENABLED Startup
           /\ pc = "exited" => exit_status = 1

\* exactly the model identifier is missing and the process has exited
C3_Witness ==
    /\ pc = "exited"
    /\ exit_status = 1
    /\ cfg["AZURE_OPENAI_API_MODEL"] = None
    /\ \A k \in ConfigKeys \ {"AZURE_OPENAI_API_MODEL"} : Truthy(cfg[k])

Completed(i) == log[i].kind = "written"
Opened(i) == log[i].kind \in {"written", "write_failed", "killed_in_write"}
Reopened(i) ==
    \E j \in (i + 1)..Len(log) : Opened(j) /\ log[j].test_code = log[i].test_code

HoldsOwnArtifact(i) ==
    /\ FileOf(log[i].test_code) \in DOMAIN DirNow
    /\ DirNow[FileOf(log[i].test_code)] = log[i].art.v

\* C4 as stated, taken for the inputs whose write completed: when the walker
\* has finished a platform each of them has its own file <test_code>.gherkin
\* holding its artifact, also when test_code values coincide.
C4_AsStated ==
    pc = "walker_done" => \A i \in DOMAIN log : Completed(i) => HoldsOwnArtifact(i)

\* C4 amended: when the walker has finished a platform, <test_code>.gherkin
\* holds the artifact of the last input that wrote it: an input whose write
\* completed has its artifact there unless a later input with the same
\* (given or defaulted) test_code opened the file again.
C4_LastWriterWins ==
    pc = "walker_done"
        => \A i \in DOMAIN log :
             (Completed(i) /\ ~Reopened(i)) => HoldsOwnArtifact(i)

\* two inputs with the same test_code and different artifacts, both written
C4_Witness ==
    /\ pc = "walker_done"
    /\ Len(log) = 2
    /\ Completed(1) /\ Completed(2)
    /\ log[1].test_code = log[2].test_code
    /\ log[1].art # log[2].art

\* C9 as stated: when the process is terminated, every output file that an
\* earlier iteration wrote completely still has the content written then.
C9_AsStated ==
    pc = "killed" => \A i \in DOMAIN log : Completed(i) => HoldsOwnArtifact(i)

\* C9 amended: when the process is terminated, every output file that an
\* earlier iteration wrote completely still has that content unless a later
\* iteration (the one in progress included) opened the same file again,
\* which happens when test_code values coincide; and the directories of the
\* platforms walked before are never touched again.
C9_WrittenFilesSurvive ==
    /\ [](pc = "killed"
            => \A i \in DOMAIN log :
                 (Completed(i) /\ ~Reopened(i)) => HoldsOwnArtifact(i))
    /\ [][\A i \in 1..(platIdx - 1) :
            i <= Len(Platforms) => out'[Platforms[i]] = out[Platforms[i]]]_vars

\* terminated while the second file was being written, the first file of
\* another test_code intact and the second incomplete
C9_Witness ==
    /\ pc = "killed"
    /\ Len(log) = 2
    /\ Completed(1)
    /\ log[2].kind = "killed_in_write"
    /\ log[2].test_code # log[1].test_code
    /\ HoldsOwnArtifact(1)
    /\ DirNow[FileOf(log[2].test_code)] # log[2].art.v

JustFinished == pc \in {"file", "walker_done"} /\ log # <<>>

\* C10 as stated, write errors left aside: a call that returns no content
\* gives the literal, the walker takes the success branch and the file holds
\* the literal; the failure branch is taken only when the call raised or the
\* extracted text is empty.
C10_AsStated ==
    /\ (pc = "branch" /\ call = "no_content")
         => gherkin_content = Str(FAILED_LITERAL)
    /\ \A i \in DOMAIN log :
         /\ log[i].call = "no_content" => log[i].kind # "skipped"
         /\ log[i].kind = "skipped"
              => (log[i].call = "raise" \/ log[i].art = Str(<<>>))
    /\ (JustFinished /\ Last(log).call = "no_content" /\ Completed(Len(log)))
         => DirNow[FileOf(Last(log).test_code)] = FAILED_LITERAL

\* C10 amended: a call that returns no content gives the literal, the
\* walker takes the success branch and, when opening and writing the file do
\* not raise, the file holds the literal; the failure branch is taken only
\* when generate_gherkin_with_llm returned None (building the prompt raised,
\* the call raised, the response had no first choice) or the extracted text
\* is empty.
C10_FallbackLiteralIsWritten ==
    /\ (pc = "branch" /\ call = "no_content")
         => gherkin_content = Str(FAILED_LITERAL)
    /\ \A i \in DOMAIN log :
         /\ log[i].call = "no_content" => log[i].kind # "skipped"
         /\ log[i].kind = "skipped"
              => \/ log[i].call \in {"prompt_raised", "raise", "no_choices"}
                    /\ log[i].art = None
                 \/ log[i].call = "content" /\ log[i].art = Str(<<>>)
    /\ (JustFinished /\ Last(log).call = "no_content" /\ Completed(Len(log)))
         => DirNow[FileOf(Last(log).test_code)] = FAILED_LITERAL

\* a call without content whose file was written with the literal
C10_Witness ==
    /\ JustFinished
    /\ Last(log).call = "no_content"
    /\ Completed(Len(log))
    /\ DirNow[FileOf(Last(log).test_code)] = FAILED_LITERAL

====
